---- MODULE Spec2Model ----
(***************************************************************************)
(* Model of the reasoning-mashup services:                                 *)
(*   - the reasoning extractor and the two-stage /chat handler             *)
(*     (src/api/main.py, src/api/main_ollama.py),                          *)
(*   - the proxy API tool (src/api/proxy_config.py),                       *)
(*   - the step pipelines (src/api/research_workflow.py,                   *)
(*     src/api/sales_qualification_workflow.py).                           *)
(* Texts are sequences of tokens; a token is a string that the code never  *)
(* looks inside (a marker such as "<think>", a whitespace character, a     *)
(* letter, or a fixed piece of a prompt template).                         *)
(***************************************************************************)
EXTENDS Integers, Sequences, FiniteSets, TLC

VARIABLES
    full_content,   \* extractor harness: the raw reply text handed to the extractor
    extracted,      \* extractor harness: <<done, text>> result of the extraction
    client,         \* who runs: [kind, api_type]; kind is "research", "sales"
                    \* (a workflow object and its run) or "direct" (one /chat caller)
    subject,        \* the topic / company name of the run
    d_req,          \* direct caller: [inst, payload] of its one request
    d_resp,         \* direct caller: how its POST ended (a net record)
    p_pc,           \* client position: "ready", "await" (suspended in the POST), "done"
    p_i,            \* pipeline: 1-based round of the loop over self.tasks
    context,        \* pipeline: the local variable context
    results,        \* pipeline: the local variable results (description -> entry)
    p_prompts,      \* history: the prompt of every chain invocation issued, in order
    p_outcomes,     \* history: per invocation, [kind, ret]: how it ended and what
                    \* ProxyAPITool.execute returned
    net,            \* the one HTTP exchange in flight
    s_pc,           \* /chat handler position: "idle", "reasoning", "response"
    s_inst,         \* the instance whose handler runs
    s_req,          \* the handler's request
    s_calls,        \* the backend calls the handler issued for this request
    s_replies,      \* the outcomes of those calls
    s_r1,           \* what get_deepseek_reasoning returned (reasoning, reasoning_id)
    s_resp,         \* the HTTP answer of the handler, NoResp until it answers
    use_proxy,      \* the USE_PROXY flag read from the environment at process start
    total_time,     \* the caller of a run: [who, total] once it summed the times
    q_pc,           \* search tool: "idle", "iterating", "returned"
    q_raw,          \* search tool: the results the provider yielded so far
    q_results,      \* search tool: the local variable results
    q_failed,       \* search tool: "no", or where the provider raised:
                    \* "construction" (DDGS()) or "iteration" (ddgs.text)
    handlers,       \* concurrent requests: per request in progress, the locals of
                    \* its chat invocation
    runs,           \* runs on one workflow object: per call of process_topic /
                    \* process_company, its argument, locals and history
    ui              \* web UI: st.session_state (api_type, workflow_type and the
                    \* cached objects) and the history of served prompts

(***************************************************************************)
(* Bounds                                                                  *)
(***************************************************************************)
\* most /chat requests in progress at one service instance
MaxHandlers == 2

\* most prompts submitted in one UI session
MaxPrompts == 3

\* longest raw reply text enumerated for the extractor
MaxLen == 5

\* largest elapsed time (in whole seconds) a /chat request reports
MaxElapsed == 1

(***************************************************************************)
(* Text helpers                                                            *)
(***************************************************************************)
\* the opening and closing markers of the regular expression
ThinkOpen == "<think>"
ThinkClose == "</think>"

\* characters removed by str.strip()
Whitespace == {" ", "\n"}

\* tokens a raw reply is made of: the two markers, a marker in the wrong
\* case, a space, a line break and an ordinary letter
Alphabet == {ThinkOpen, ThinkClose, "<THINK>", " ", "\n", "a"}

\* all texts of at most n tokens
Texts(n) == UNION {[1..k -> Alphabet] : k \in 0..n}

\* str.lstrip(): drop leading whitespace
RECURSIVE LStrip(_)
LStrip(s) ==
    IF s = <<>> THEN <<>>
    ELSE IF Head(s) \in Whitespace THEN LStrip(Tail(s))
    ELSE s

\* str.rstrip(): drop trailing whitespace
RECURSIVE RStrip(_)
RStrip(s) ==
    IF s = <<>> THEN <<>>
    ELSE IF s[Len(s)] \in Whitespace THEN RStrip(SubSeq(s, 1, Len(s) - 1))
    ELSE s

\* variant: only the leading whitespace is removed
StripLeftOnly(s) == LStrip(s)

\* str.strip()
Strip(s) == RStrip(LStrip(s))

\* variant: a greedy quantifier .* runs to the last closing marker
GreedyClose(s, q) ==
    LET closes == {x \in q..Len(s) : s[x] = ThinkClose}
    IN  IF closes = {} THEN 0 ELSE CHOOSE x \in closes : \A y \in closes : y <= x

\* the lazy quantifier .*? of the pattern, started at position q: the
\* smallest position >= q holding the closing marker, 0 when there is none
\* (re.DOTALL: every token, a line break included, is consumed by the dot)
RECURSIVE LazyClose(_, _)
LazyClose(s, q) ==
    IF q > Len(s) THEN 0
    ELSE IF s[q] = ThinkClose THEN q
    ELSE LazyClose(s, q + 1)

\* re.search: try every start position from the left; the first position
\* where the whole pattern matches wins.  Result <<p, q>>: opening marker
\* at p, closing marker at q; <<0, 0>> when the pattern matches nowhere.
RECURSIVE ReSearch(_, _)
ReSearch(s, p) ==
    IF p > Len(s) THEN <<0, 0>>
    ELSE IF s[p] = ThinkOpen /\ LazyClose(s, p + 1) # 0
         THEN <<p, LazyClose(s, p + 1)>>
    ELSE ReSearch(s, p + 1)

\* think_match.group(1).strip() if think_match else full_content
ExtractReasoning(s) ==
    LET m == ReSearch(s, 1)
    IN  IF m[1] # 0 THEN Strip(SubSeq(s, m[1] + 1, m[2] - 1)) ELSE s

(***************************************************************************)
(* Backend replies (client.chat.completions.create)                        *)
(***************************************************************************)
\* the call raises an exception whose str() is msg
Raises(msg) ==
    [kind |-> "raise", msg |-> msg, hasId |-> FALSE, id |-> "",
     choices |-> "none", hasContent |-> FALSE, content |-> <<>>]

\* the call returns a completion object; choices is "none" (no usable
\* choices attribute), "empty" (an empty list) or "one" (a first choice,
\* whose message content is a text when hasContent, None otherwise)
Reply(hasId, id, choices, hasContent, content) ==
    [kind |-> "reply", msg |-> <<>>, hasId |-> hasId, id |-> id,
     choices |-> choices, hasContent |-> hasContent, content |-> content]

\* variant: a reply without an id yields an empty request id
RequestIdEmpty(o) == IF o.hasId THEN o.id ELSE ""

\* getattr(response, 'id', 'unknown')
RequestId(o) == IF o.hasId THEN o.id ELSE "unknown"

\* what a stage function hands back: a value and a request id, or the
\* HTTPException(status_code=500, detail=...) it raises
StageOk(hasValue, value, id) ==
    [ok |-> TRUE, hasValue |-> hasValue, value |-> value, id |-> id, detail |-> <<>>]
StageRaise(detail) ==
    [ok |-> FALSE, hasValue |-> FALSE, value |-> <<>>, id |-> "", detail |-> detail]

\* f"Error getting reasoning: {str(e)}"
ReasoningDetail(msg) == <<"Error getting reasoning: ">> \o msg

\* f"Error getting response: {str(e)}"
ResponseDetail(msg) == <<"Error getting response: ">> \o msg

\* str() of the exceptions Python raises on a malformed completion
NotSubscriptable == <<"'NoneType' object is not subscriptable">>
IndexOutOfRange == <<"list index out of range">>
ExpectedString == <<"expected string or bytes-like object, got 'NoneType'">>
InvalidFormat == <<"Invalid response format from OpenRouter">>
ValidationError == <<"1 validation error for ChatResponse\nresponse\n  Input should be a valid string">>

\* the two service instances
Main == "main"
MainOllama == "main_ollama"
Instances == {Main, MainOllama}

\* messages of the reasoning call
ReasoningMessages(user_input) ==
    << [role |-> "system", content |-> <<"You are a helpful assistant.">>],
       [role |-> "user", content |-> user_input] >>

\* f"<thinking>{reasoning}</thinking>"
Thinking(reasoning) == <<"<thinking>">> \o reasoning \o <<"</thinking>">>

\* variant: the assistant turn wraps the user input instead of the reasoning
ResponseMessagesWrongTurn(inst, user_input, reasoning) ==
    IF inst = Main
    THEN << [role |-> "user", content |-> user_input],
            [role |-> "assistant", content |-> Thinking(user_input)] >>
    ELSE << [role |-> "system", content |-> <<"You are a helpful assistant that provides clear, accurate, and well-structured responses.">>],
            [role |-> "user", content |-> user_input],
            [role |-> "assistant", content |-> Thinking(user_input)],
            [role |-> "user", content |-> <<"Based on this reasoning, please provide a clear and comprehensive response.">>] >>

\* variant: both instances send the four-turn sequence
ResponseMessagesAlwaysB(inst, user_input, reasoning) ==
    << [role |-> "system", content |-> <<"You are a helpful assistant that provides clear, accurate, and well-structured responses.">>],
       [role |-> "user", content |-> user_input],
       [role |-> "assistant", content |-> Thinking(reasoning)],
       [role |-> "user", content |-> <<"Based on this reasoning, please provide a clear and comprehensive response.">>] >>

\* messages of the response call: main.py get_claude_response and
\* main_ollama.py get_final_response
ResponseMessages(inst, user_input, reasoning) ==
    IF inst = Main
    THEN << [role |-> "user", content |-> user_input],
            [role |-> "assistant", content |-> Thinking(reasoning)] >>
    ELSE << [role |-> "system", content |-> <<"You are a helpful assistant that provides clear, accurate, and well-structured responses.">>],
            [role |-> "user", content |-> user_input],
            [role |-> "assistant", content |-> Thinking(reasoning)],
            [role |-> "user", content |-> <<"Based on this reasoning, please provide a clear and comprehensive response.">>] >>

\* get_deepseek_reasoning, from the outcome o of its backend call on
GetDeepseekReasoning(o) ==
    IF o.kind = "raise" THEN StageRaise(ReasoningDetail(o.msg))
    ELSE IF o.choices = "none" THEN StageRaise(ReasoningDetail(NotSubscriptable))
    ELSE IF o.choices = "empty" THEN StageRaise(ReasoningDetail(IndexOutOfRange))
    ELSE IF ~o.hasContent THEN StageRaise(ReasoningDetail(ExpectedString))
    ELSE StageOk(TRUE, ExtractReasoning(o.content), RequestId(o))

\* variant: a completion without usable content is taken as an empty text
GetFinalResponseLenient(inst, o) ==
    IF o.kind = "raise" THEN StageRaise(ResponseDetail(o.msg))
    ELSE StageOk(TRUE, o.content, RequestId(o))

\* get_claude_response (main.py) / get_final_response (main_ollama.py),
\* from the outcome o of its backend call on
GetFinalResponse(inst, o) ==
    IF o.kind = "raise" THEN StageRaise(ResponseDetail(o.msg))
    ELSE IF inst = Main /\ o.choices # "one" THEN StageRaise(ResponseDetail(InvalidFormat))
    ELSE IF o.choices = "none" THEN StageRaise(ResponseDetail(NotSubscriptable))
    ELSE IF o.choices = "empty" THEN StageRaise(ResponseDetail(IndexOutOfRange))
    ELSE StageOk(o.hasContent, o.content, RequestId(o))

\* variant: an exception whose str() is empty (no positional arguments)
StrOfHTTPExceptionEmpty(status, detail) == <<>>

\* str(e) of an HTTPException: "{status_code}: {detail}"
StrOfHTTPException(status, detail) == <<status, ": ">> \o detail

\* HTTP answers of /chat
NoBody == [none |-> TRUE]
Http500(detail) == [status |-> 500, body |-> NoBody, detail |-> detail]
Http200(body) == [status |-> 200, body |-> body, detail |-> <<>>]

\* variant: a failed stage is answered with a 200 carrying the error text
ChatStagePartial(r) ==
    [status |-> 200,
     body |-> [reasoning |-> <<>>, response |-> r.detail, model |-> "",
               elapsed_time |-> 0,
               request_ids |-> [reasoning |-> "unknown", response |-> "unknown"]],
     detail |-> <<>>]

\* the outer except clause of chat: HTTPException(500, detail=str(e)) for
\* the HTTPException a stage function raised
ChatStageError(r) == Http500(StrOfHTTPException("500", r.detail))

\* variant: the reasoning is returned whatever show_reasoning says
ChatResultAlwaysReasoning(req, r1, r2, elapsed) ==
    IF ~r2.hasValue THEN Http500(ValidationError)
    ELSE Http200([reasoning |-> r1.value,
                  response |-> r2.value,
                  model |-> req.model,
                  elapsed_time |-> elapsed,
                  request_ids |-> [reasoning |-> r1.id, response |-> r2.id]])

\* the tail of chat once both stages returned: the ChatResponse, or the
\* outer except clause when the model rejects a response that is no string
ChatResult(req, r1, r2, elapsed) ==
    IF ~r2.hasValue THEN Http500(ValidationError)
    ELSE Http200([reasoning |-> IF req.show_reasoning THEN r1.value ELSE <<>>,
                  response |-> r2.value,
                  model |-> req.model,
                  elapsed_time |-> elapsed,
                  request_ids |-> [reasoning |-> r1.id, response |-> r2.id]])

(***************************************************************************)
(* Proxy API tool (src/api/proxy_config.py)                                *)
(***************************************************************************)
OPENROUTER == "openrouter"
OLLAMA == "ollama"
ApiTypes == {OPENROUTER, OLLAMA}

\* ProxyAPIConfig.get_api_url
GetApiUrl(api_type) ==
    IF api_type = OPENROUTER THEN "http://localhost:8000" ELSE "http://localhost:8001"

\* the service instance listening at a URL (uvicorn.run(..., port=...))
InstanceAt(url) == IF url = "http://localhost:8000" THEN Main ELSE MainOllama

\* the JSON payload ProxyAPITool.execute posts to {api_url}/chat
Payload(api_type, input_data) ==
    [message |-> input_data,
     show_reasoning |-> TRUE,
     model |-> IF api_type = OPENROUTER THEN "anthropic/claude-3-sonnet:beta"
               ELSE "deepseek-r1:8b"]

\* Python's None
None == [none |-> TRUE]

\* the connection between a client and a service instance
NoPayload == [message |-> <<>>, show_reasoning |-> TRUE, model |-> ""]
NoResp == [status |-> 0, body |-> None, detail |-> <<>>]
NetIdle == [state |-> "idle", url |-> "", payload |-> NoPayload, resp |-> NoResp, err |-> ""]

\* what ProxyAPITool.execute returns for the way its POST ended: the JSON
\* body on status 200, None on any other status and on an exception
ExecuteResult(n) ==
    IF n.state = "response" /\ n.resp.status = 200 THEN n.resp.body ELSE None

(***************************************************************************)
(* Backend clients (create_client_with_proxy, ModelChain.__init__)         *)
(***************************************************************************)
PROXY_URL == "http://127.0.0.1:8080"

\* httpx.Client(proxies={"http://": PROXY_URL, "https://": PROXY_URL},
\*              verify=False)
ProxiedHttpClient ==
    [proxies |-> [http |-> PROXY_URL, https |-> PROXY_URL], verify |-> FALSE]

\* variant: proxying done by pointing the client at the proxy
CreateClientViaBaseUrl(flag, base_url, api_key) ==
    [base_url |-> IF flag THEN PROXY_URL ELSE base_url,
     api_key |-> api_key,
     http_client |-> None]

\* create_client_with_proxy under USE_PROXY = flag: the keyword arguments
\* OpenAI is constructed with (http_client None when it is not passed)
CreateClientWithProxy(flag, base_url, api_key) ==
    [base_url |-> base_url,
     api_key |-> api_key,
     http_client |-> IF flag THEN ProxiedHttpClient ELSE None]

\* self.ollama_client and self.openrouter_client of ModelChain.__init__
OllamaClient(flag) == CreateClientWithProxy(flag, "http://localhost:11434/v1", "ollama")
OpenrouterClient(flag) ==
    CreateClientWithProxy(flag, "https://openrouter.ai/api/v1", "$OPENROUTER_API_KEY")

\* the client a stage function of an instance calls
StageClient(inst, stage, flag) ==
    IF inst = Main /\ stage = "response" THEN OpenrouterClient(flag) ELSE OllamaClient(flag)

(***************************************************************************)
(* Workflows                                                               *)
(***************************************************************************)
\* an agent: the attribute it is stored under, its name and role, and the
\* api_type its ProxyAPITool (llm) was constructed with
Agent(id, name, role, llm_api_type) ==
    [id |-> id, name |-> name, role |-> role, api_type |-> llm_api_type]

Task(description, agent) == [description |-> description, agent |-> agent]

\* ResearchWorkflow.__init__: the agents' constructors and self.tasks
ResearchTasks(api_type) ==
    << Task("Review current literature and research",
            Agent("literature_agent", "Literature Reviewer", "Research Literature Analyst", api_type)),
       Task("Analyze research gaps and opportunities",
            Agent("gap_agent", "Gap Analyzer", "Research Gap Analyst", OPENROUTER)),
       Task("Evaluate research methodologies",
            Agent("methodology_agent", "Methodology Expert", "Research Methodology Analyst", OPENROUTER)),
       Task("Assess research impact and implications",
            Agent("impact_agent", "Impact Assessor", "Research Impact Analyst", OPENROUTER)),
       Task("Synthesize final research report",
            Agent("synthesis_agent", "Research Synthesizer", "Research Report Writer", OPENROUTER)) >>

\* SalesQualificationWorkflow.__init__: the agents' constructors and self.tasks
SalesTasks(api_type) ==
    << Task("Conduct comprehensive company research",
            Agent("company_agent", "Company Intelligence Gatherer", "Corporate Intelligence Analyst", api_type)),
       Task("Analyze operations and regulatory landscape",
            Agent("compliance_agent", "Operations Analyzer", "Business Operations Specialist", api_type)),
       Task("Research market ecosystem and positioning",
            Agent("competitor_agent", "Market Intelligence Analyst", "Market Research Specialist", api_type)),
       Task("Synthesize comprehensive company profile",
            Agent("fit_agent", "Business Analyst", "Strategic Business Analyst", api_type)) >>

\* self.tasks of a workflow object
Tasks(wf) ==
    IF "tasks" \in DOMAIN wf THEN wf.tasks
    ELSE IF wf.kind = "research" THEN ResearchTasks(wf.api_type)
    ELSE IF wf.kind = "sales" THEN SalesTasks(wf.api_type)
    ELSE <<>>

\* the task the loop of process_topic / process_company is at in round i
CurrentTask(wf, i) == Tasks(wf)[i]

\* variant: process_topic without the special handling of the synthesis task
ResearchPromptGeneric(task, topic, ctx) ==
    <<"Research Topic: ">> \o topic \o <<"\n\nPrevious Analysis:\n">> \o ctx
    \o <<"\n\nYour Task: ", task.description, "\nAs a ", task.agent.role,
         ", analyze this topic and provide: ... Be thorough and analytical in your response.">>

\* the prompt of ResearchWorkflow.process_topic
ResearchPrompt(task, topic, ctx) ==
    IF task.agent.id = "synthesis_agent"
    THEN <<"Research Topic: ">> \o topic \o <<"\n\nPrevious Analyses:\n">> \o ctx
         \o <<"\n\nYour task is to synthesize all previous analyses into a clear, comprehensive final report.\nFollow this structure: EXECUTIVE SUMMARY ... COMPREHENSIVE RESEARCH REPORT ... Focus on clarity, actionability, and practical implications.">>
    ELSE <<"Research Topic: ">> \o topic \o <<"\n\nPrevious Analysis:\n">> \o ctx
         \o <<"\n\nYour Task: ", task.description, "\nAs a ", task.agent.role,
              ", analyze this topic and provide: ... Be thorough and analytical in your response.">>

\* the prompt of SalesQualificationWorkflow.process_company
SalesPrompt(task, company_name, ctx) ==
    <<"Target Company: ">> \o company_name \o <<"\n\nPrevious Analysis:\n">> \o ctx
    \o <<"\n\nYour Task: ", task.description, "\nAs a ", task.agent.role,
         ", conduct exhaustive research and provide: ... Be analytical and fact-focused in your response.">>

BuildPrompt(wf, task, subj, ctx) ==
    IF wf.kind = "research" THEN ResearchPrompt(task, subj, ctx)
    ELSE SalesPrompt(task, subj, ctx)

\* if result: ... (a non-empty dict is true, None is false)
Truthy(result) == result # None

\* variant: only a successful step is entered into the mapping
RecordOutcomeSuccessOnly(res, task, result) ==
    IF result # None
    THEN [d \in (DOMAIN res) \cup {task.description} |->
            IF d = task.description
            THEN [reasoning |-> result.reasoning, response |-> result.response,
                  time |-> result.elapsed_time]
            ELSE res[d]]
    ELSE res

\* variant: a success entry with reasoning and response exchanged and the
\* elapsed time dropped
RecordOutcomeSwapped(res, task, result) ==
    LET entry == IF result # None
                 THEN [reasoning |-> result.response,
                       response |-> result.reasoning,
                       time |-> 0]
                 ELSE [error |-> "Task failed"]
    IN  [d \in (DOMAIN res) \cup {task.description} |->
            IF d = task.description THEN entry ELSE res[d]]

\* variant: an entry already stored under the description is kept
RecordOutcomeKeepFirst(res, task, result) ==
    LET entry == IF result # None
                 THEN [reasoning |-> result.reasoning,
                       response |-> result.response,
                       time |-> result.elapsed_time]
                 ELSE [error |-> "Task failed"]
    IN  [d \in (DOMAIN res) \cup {task.description} |->
            IF d \in DOMAIN res THEN res[d] ELSE entry]

\* results[task.description] = ... in both branches of the loop body
RecordOutcome(res, task, result) ==
    LET entry == IF Truthy(result)
                 THEN [reasoning |-> result.reasoning,
                       response |-> result.response,
                       time |-> result.elapsed_time]
                 ELSE [error |-> "Task failed"]
    IN  [d \in (DOMAIN res) \cup {task.description} |->
            IF d = task.description THEN entry ELSE res[d]]

\* variant: the else branch appends an empty block as well
ContextAfterAlways(ctx, task, result) ==
    ctx \o <<"\n\nPrevious Step (", task.agent.name, "):\n">>
        \o (IF result # None THEN result.response ELSE <<>>)

\* variant: the context is assigned (=) instead of extended (+=)
ContextAfterReplace(ctx, task, result) ==
    IF result # None
    THEN <<"\n\nPrevious Step (", task.agent.name, "):\n">> \o result.response
    ELSE ctx

\* variant: the block is labelled with the agent's role instead of its name
ContextAfterRole(ctx, task, result) ==
    IF result # None
    THEN ctx \o <<"\n\nPrevious Step (", task.agent.role, "):\n">> \o result.response
    ELSE ctx

\* variant: the new block is put in front of the context
ContextAfterPrepend(ctx, task, result) ==
    IF result # None
    THEN <<"\n\nPrevious Step (", task.agent.name, "):\n">> \o result.response \o ctx
    ELSE ctx

\* context += f"\n\nPrevious Step ({task.agent.name}):\n{response}" on
\* success; the else branch leaves context alone
ContextAfter(ctx, task, result) ==
    IF Truthy(result)
    THEN ctx \o <<"\n\nPrevious Step (", task.agent.name, "):\n">> \o result.response
    ELSE ctx

(***************************************************************************)
(* Inputs                                                                  *)
(***************************************************************************)
\* subjects of a run
Subjects == {<<"fusion">>}

\* requests of the direct caller
DirectRequests ==
    {[inst |-> inst,
      payload |-> [message |-> <<"hi">>, show_reasoning |-> sr, model |-> m]] :
        inst \in Instances, sr \in BOOLEAN,
        m \in {"anthropic/claude-3.5-sonnet", "phi4"}}

\* str() of the exceptions a backend call raises
BackendErrors == {<<"Connection error.">>}

\* reply texts of the reasoning backend: a delimited region followed by an
\* answer and (direct caller only) no region at all and an unclosed region
ReasoningTexts(rich) ==
    {<<ThinkOpen, " ", "x", "\n", ThinkClose, "y">>}
    \cup (IF rich THEN {<<"z">>, <<ThinkOpen, "x">>} ELSE {})

\* reply texts of the response backend
ResponseTexts == {<<"r1">>, <<"r2", "x">>}

\* outcomes of one backend call; the direct caller also meets completions
\* without an id, without choices and without content
BackendOutcomes(texts, rich) ==
    {Raises(m) : m \in BackendErrors}
    \cup {Reply(TRUE, "chatcmpl-1", "one", TRUE, t) : t \in texts}
    \cup (IF rich
          THEN {Reply(FALSE, "", "one", TRUE, t) : t \in texts}
               \cup {Reply(TRUE, "chatcmpl-1", c, FALSE, <<>>) : c \in {"none", "empty", "one"}}
          ELSE {})

ElapsedTimes == 0..MaxElapsed

IsPipeline == client.kind \in {"research", "sales"}
IsDirect == client.kind = "direct"

(***************************************************************************)
(* State machine                                                           *)
(***************************************************************************)
xvars == <<full_content, extracted>>
qvars == <<q_pc, q_raw, q_results, q_failed>>
kvars == <<handlers>>
rvars == <<runs>>
uvars == <<ui>>
hvars == <<kvars, rvars, uvars>>
cvars == <<client, subject, d_req, use_proxy>>
pvars == <<p_pc, p_i, context, results, p_prompts, p_outcomes, d_resp>>
svars == <<s_pc, s_inst, s_req, s_calls, s_replies, s_r1, s_resp>>
vars == <<xvars, qvars, total_time, hvars, cvars, pvars, net, svars>>

\* st.session_state after the initialisation block of the first script run:
\* ResearchAgent() is built with the default api_type, no workflow is cached
SessionStart ==
    [api_type |-> OPENROUTER,
     workflow_type |-> "simple",
     simple_agent |-> [api_type |-> OPENROUTER],
     multi_agent_workflow |-> None,
     sales_workflow |-> None,
     served |-> <<>>]

\* no total computed yet
NoTotal == [who |-> "nobody", total |-> 0]

NoStage == StageRaise(<<>>)

\* the state after construction: a workflow object before its run with
\* results = {} and context = "", or a caller before its request; the
\* service instances idle
IdleInit ==
    /\ p_pc = "ready"
    /\ p_i = 1
    /\ context = <<>>
    /\ results = <<>>
    /\ p_prompts = <<>>
    /\ p_outcomes = <<>>
    /\ d_resp = NetIdle
    /\ net = NetIdle
    /\ s_pc = "idle"
    /\ s_inst = Main
    /\ s_req = NoPayload
    /\ s_calls = <<>>
    /\ s_replies = <<>>
    /\ s_r1 = NoStage
    /\ s_resp = NoResp
    /\ total_time = NoTotal
    /\ q_pc = "idle"
    /\ q_raw = <<>>
    /\ q_results = <<>>
    /\ q_failed = "no"
    /\ handlers = <<>>
    /\ runs = <<>>
    /\ ui = SessionStart

Init ==
    /\ full_content = <<>>
    /\ extracted = <<FALSE, <<>>>>
    /\ use_proxy = FALSE
    /\ \/ /\ client \in {[kind |-> k, api_type |-> a] : k \in {"research", "sales"}, a \in ApiTypes}
          /\ subject \in Subjects
          /\ d_req = [inst |-> Main, payload |-> NoPayload]
       \/ /\ client = [kind |-> "direct", api_type |-> OPENROUTER]
          /\ subject = <<>>
          /\ d_req \in DirectRequests
    /\ IdleInit

\* one round of the loop up to the await: build the prompt, call
\* task.agent.llm.execute(prompt), which posts the payload and suspends
StepIssue ==
    /\ IsPipeline
    /\ p_pc = "ready"
    /\ p_i <= Len(Tasks(client))
    /\ LET task == CurrentTask(client, p_i)
           prompt == BuildPrompt(client, task, subject, context)
       IN  /\ p_prompts' = Append(p_prompts, prompt)
           /\ net' = [NetIdle EXCEPT !.state = "request",
                                     !.url = GetApiUrl(task.agent.api_type),
                                     !.payload = Payload(task.agent.api_type, prompt)]
    /\ p_pc' = "await"
    /\ UNCHANGED <<xvars, qvars, total_time, hvars, cvars, p_i, context, results, p_outcomes, d_resp, svars>>

\* variant: the else branch returns early (the run stops at a failed step)
StepReturnAbort ==
    /\ IsPipeline
    /\ p_pc = "await"
    /\ net.state \in {"response", "error"}
    /\ LET task == CurrentTask(client, p_i)
           result == ExecuteResult(net)
           kind == IF net.state = "error" THEN net.err
                   ELSE IF net.resp.status = 200 THEN "ok" ELSE "non200"
       IN  /\ results' = RecordOutcome(results, task, result)
           /\ context' = ContextAfter(context, task, result)
           /\ p_outcomes' = Append(p_outcomes, [kind |-> kind, ret |-> result])
    /\ p_i' = p_i + 1
    /\ p_pc' = IF p_i = Len(Tasks(client)) \/ ExecuteResult(net) = None THEN "done" ELSE "ready"
    /\ net' = NetIdle
    /\ UNCHANGED <<xvars, qvars, total_time, hvars, cvars, p_prompts, d_resp, svars>>

\* variant: a failed step is invoked again instead of moving on
StepReturnRetry ==
    /\ IsPipeline
    /\ p_pc = "await"
    /\ net.state \in {"response", "error"}
    /\ LET task == CurrentTask(client, p_i)
           result == ExecuteResult(net)
           kind == IF net.state = "error" THEN net.err
                   ELSE IF net.resp.status = 200 THEN "ok" ELSE "non200"
       IN  /\ results' = RecordOutcome(results, task, result)
           /\ context' = ContextAfter(context, task, result)
           /\ p_outcomes' = Append(p_outcomes, [kind |-> kind, ret |-> result])
    /\ p_i' = IF ExecuteResult(net) = None THEN p_i ELSE p_i + 1
    /\ p_pc' = IF p_i = Len(Tasks(client)) /\ ExecuteResult(net) # None THEN "done" ELSE "ready"
    /\ net' = NetIdle
    /\ UNCHANGED <<xvars, qvars, total_time, hvars, cvars, p_prompts, d_resp, svars>>

\* the rest of the round: execute returns, the outcome is recorded, the
\* context updated, and the loop goes on or the function returns results
StepReturn ==
    /\ IsPipeline
    /\ p_pc = "await"
    /\ net.state \in {"response", "error"}
    /\ LET task == CurrentTask(client, p_i)
           result == ExecuteResult(net)
           kind == IF net.state = "error" THEN net.err
                   ELSE IF net.resp.status = 200 THEN "ok" ELSE "non200"
       IN  /\ results' = RecordOutcome(results, task, result)
           /\ context' = ContextAfter(context, task, result)
           /\ p_outcomes' = Append(p_outcomes, [kind |-> kind, ret |-> result])
    /\ p_i' = p_i + 1
    /\ p_pc' = IF p_i = Len(Tasks(client)) THEN "done" ELSE "ready"
    /\ net' = NetIdle
    /\ UNCHANGED <<xvars, qvars, total_time, hvars, cvars, p_prompts, d_resp, svars>>

\* variant: the loop over results.items() ends after its first entry
TotalTimeFirstOnly(res, tasks, n) ==
    IF n = 0 \/ "error" \in DOMAIN res[tasks[1].description] THEN 0
    ELSE res[tasks[1].description].time

\* total_time after the first n entries of results.items(): entries are in
\* insertion order, the order of the steps; an entry with "error" is only
\* printed, any other adds its time
RECURSIVE TotalTime(_, _, _)
TotalTime(res, tasks, n) ==
    IF n = 0 THEN 0
    ELSE TotalTime(res, tasks, n - 1)
         + (IF "error" \in DOMAIN res[tasks[n].description] THEN 0
            ELSE res[tasks[n].description].time)

\* the callers of a run: main() of the workflow modules, which constructs
\* the workflow with the default api_type, and the web UI
Callers == {"cli", "ui"}

\* the caller walks the returned results and reports the total time
Report ==
    /\ IsPipeline
    /\ p_pc = "done"
    /\ total_time = NoTotal
    /\ \E who \in Callers :
        /\ who = "cli" => client.api_type = OPENROUTER
        /\ total_time' = [who |-> who,
                          total |-> TotalTime(results, Tasks(client), Len(Tasks(client)))]
    /\ UNCHANGED <<xvars, qvars, hvars, cvars, pvars, net, svars>>

\* a caller posts one request to /chat of an instance
DirectSend ==
    /\ IsDirect
    /\ p_pc = "ready"
    /\ net' = [NetIdle EXCEPT !.state = "request",
                              !.url = IF d_req.inst = Main THEN GetApiUrl(OPENROUTER)
                                      ELSE GetApiUrl(OLLAMA),
                              !.payload = d_req.payload]
    /\ p_pc' = "await"
    /\ UNCHANGED <<xvars, qvars, total_time, hvars, cvars, p_i, context, results, p_prompts, p_outcomes, d_resp, svars>>

\* the caller gets the answer (or the failure) of its request
DirectReceive ==
    /\ IsDirect
    /\ p_pc = "await"
    /\ net.state \in {"response", "error"}
    /\ d_resp' = net
    /\ net' = NetIdle
    /\ p_pc' = "done"
    /\ UNCHANGED <<xvars, qvars, total_time, hvars, cvars, p_i, context, results, p_prompts, p_outcomes, svars>>

\* the POST never reaches the service: connection refused
Refused ==
    /\ net.state = "request"
    /\ net' = [net EXCEPT !.state = "error", !.err = "refused"]
    /\ UNCHANGED <<xvars, qvars, total_time, hvars, cvars, pvars, svars>>

\* the answer is lost on the way back: the POST raises a transport error
TransportError ==
    /\ net.state = "response"
    /\ net' = [net EXCEPT !.state = "error", !.err = "transport", !.resp = NoResp]
    /\ UNCHANGED <<xvars, qvars, total_time, hvars, cvars, pvars, svars>>

\* chat up to the reasoning call: the handler of the addressed instance
\* takes the request and get_deepseek_reasoning issues its backend call
ChatBegin ==
    /\ net.state = "request"
    /\ s_pc = "idle"
    /\ s_inst' = InstanceAt(net.url)
    /\ s_req' = net.payload
    /\ s_calls' = << [stage |-> "reasoning", model |-> "deepseek-r1:8b",
                      client |-> StageClient(InstanceAt(net.url), "reasoning", use_proxy),
                      messages |-> ReasoningMessages(net.payload.message)] >>
    /\ s_replies' = <<>>
    /\ s_r1' = NoStage
    /\ s_resp' = NoResp
    /\ s_pc' = "reasoning"
    /\ net' = [net EXCEPT !.state = "handling"]
    /\ UNCHANGED <<xvars, qvars, total_time, hvars, cvars, pvars>>

\* variant: chat goes on to the response stage with an empty reasoning when
\* the reasoning stage failed
ReasoningReturnContinue ==
    /\ s_pc = "reasoning"
    /\ \E o \in BackendOutcomes(ReasoningTexts(IsDirect), IsDirect) :
        LET r == GetDeepseekReasoning(o)
        IN  /\ s_replies' = Append(s_replies, o)
            /\ s_r1' = r
            /\ s_calls' = Append(s_calls,
                    [stage |-> "response", model |-> s_req.model,
                     client |-> StageClient(s_inst, "response", use_proxy),
                     messages |-> ResponseMessages(s_inst, s_req.message, r.value)])
            /\ s_pc' = "response"
            /\ UNCHANGED <<s_resp, net>>
    /\ UNCHANGED <<xvars, qvars, total_time, hvars, cvars, pvars, s_inst, s_req>>

\* variant: a failed reasoning call is issued once more before chat gives up
ReasoningReturnRetry ==
    /\ s_pc = "reasoning"
    /\ \E o \in BackendOutcomes(ReasoningTexts(IsDirect), IsDirect) :
        LET r == GetDeepseekReasoning(o)
        IN  /\ s_replies' = Append(s_replies, o)
            /\ s_r1' = r
            /\ IF r.ok
               THEN /\ s_calls' = Append(s_calls,
                            [stage |-> "response", model |-> s_req.model,
                             client |-> StageClient(s_inst, "response", use_proxy),
                             messages |-> ResponseMessages(s_inst, s_req.message, r.value)])
                    /\ s_pc' = "response"
                    /\ UNCHANGED <<s_resp, net>>
               ELSE IF Len(s_calls) = 1
               THEN /\ s_calls' = Append(s_calls, s_calls[1])
                    /\ s_pc' = "reasoning"
                    /\ UNCHANGED <<s_resp, net>>
               ELSE /\ s_resp' = ChatStageError(r)
                    /\ net' = [net EXCEPT !.state = "response", !.resp = ChatStageError(r)]
                    /\ s_pc' = "idle"
                    /\ UNCHANGED s_calls
    /\ UNCHANGED <<xvars, qvars, total_time, hvars, cvars, pvars, s_inst, s_req>>

\* the reasoning call ends: get_deepseek_reasoning returns and the response
\* stage issues its backend call, or it raises and chat answers 500
ReasoningReturn ==
    /\ s_pc = "reasoning"
    /\ \E o \in BackendOutcomes(ReasoningTexts(IsDirect), IsDirect) :
        LET r == GetDeepseekReasoning(o)
        IN  /\ s_replies' = Append(s_replies, o)
            /\ s_r1' = r
            /\ IF r.ok
               THEN /\ s_calls' = Append(s_calls,
                            [stage |-> "response", model |-> s_req.model,
                             client |-> StageClient(s_inst, "response", use_proxy),
                             messages |-> ResponseMessages(s_inst, s_req.message, r.value)])
                    /\ s_pc' = "response"
                    /\ UNCHANGED <<s_resp, net>>
               ELSE /\ s_resp' = ChatStageError(r)
                    /\ net' = [net EXCEPT !.state = "response", !.resp = ChatStageError(r)]
                    /\ s_pc' = "idle"
                    /\ UNCHANGED s_calls
    /\ UNCHANGED <<xvars, qvars, total_time, hvars, cvars, pvars, s_inst, s_req>>

\* the response call ends: chat answers with the ChatResponse or with 500
ResponseReturn ==
    /\ s_pc = "response"
    /\ \E o \in BackendOutcomes(ResponseTexts, IsDirect), elapsed \in ElapsedTimes :
        LET r2 == GetFinalResponse(s_inst, o)
            answer == IF r2.ok THEN ChatResult(s_req, s_r1, r2, elapsed)
                      ELSE ChatStageError(r2)
        IN  /\ s_replies' = Append(s_replies, o)
            /\ s_resp' = answer
            /\ net' = [net EXCEPT !.state = "response", !.resp = answer]
    /\ s_pc' = "idle"
    /\ UNCHANGED <<xvars, qvars, total_time, hvars, cvars, pvars, s_inst, s_req, s_calls, s_r1>>

Next ==
    \/ StepIssue
    \/ StepReturn
    \/ Report
    \/ DirectSend
    \/ DirectReceive
    \/ Refused
    \/ TransportError
    \/ ChatBegin
    \/ ReasoningReturn
    \/ ResponseReturn

Spec == Init /\ [][Next]_vars

(***************************************************************************)
(* Extractor harness: every raw text up to MaxLen tokens is extracted.     *)
(***************************************************************************)
ExtractInit ==
    /\ full_content \in Texts(MaxLen)
    /\ extracted = <<FALSE, <<>>>>
    /\ client = [kind |-> "direct", api_type |-> OPENROUTER]
    /\ subject = <<>>
    /\ d_req = [inst |-> Main, payload |-> NoPayload]
    /\ use_proxy = FALSE
    /\ IdleInit

\* the two lines of get_deepseek_reasoning that turn full_content into the
\* reasoning
Extract ==
    /\ ~extracted[1]
    /\ extracted' = <<TRUE, ExtractReasoning(full_content)>>
    /\ UNCHANGED <<full_content, qvars, total_time, hvars, cvars, pvars, net, svars>>

ExtractNext == Extract

SpecExtract == ExtractInit /\ [][ExtractNext]_vars

(***************************************************************************)
(* The chain under both settings of USE_PROXY                              *)
(***************************************************************************)
ProxyInit ==
    /\ full_content = <<>>
    /\ extracted = <<FALSE, <<>>>>
    /\ use_proxy \in BOOLEAN
    /\ client = [kind |-> "direct", api_type |-> OPENROUTER]
    /\ subject = <<>>
    /\ d_req \in DirectRequests
    /\ IdleInit

ProxyNext ==
    \/ DirectSend
    \/ DirectReceive
    \/ Refused
    \/ TransportError
    \/ ChatBegin
    \/ ReasoningReturn
    \/ ResponseReturn

SpecProxy == ProxyInit /\ [][ProxyNext]_vars

(***************************************************************************)
(* Concurrent /chat requests at one instance: every request runs chat with *)
(* its own locals against the one module-level model_chain                 *)
(***************************************************************************)
\* requests that differ in message and model
ConcRequests ==
    { [message |-> <<"hi">>, show_reasoning |-> TRUE, model |-> "anthropic/claude-3.5-sonnet"],
      [message |-> <<"yo">>, show_reasoning |-> TRUE, model |-> "phi4"] }

ConcInit ==
    /\ full_content = <<>>
    /\ extracted = <<FALSE, <<>>>>
    /\ client = [kind |-> "direct", api_type |-> OPENROUTER]
    /\ subject = <<>>
    /\ d_req = [inst |-> Main, payload |-> NoPayload]
    /\ use_proxy = FALSE
    /\ IdleInit

\* variant: the reasoning is read from the first request in progress
FirstHandlerReasoning(hs, i) == hs[1].r1.value

\* the local variable reasoning of invocation i of chat
HandlerReasoning(hs, i) == hs[i].r1.value

\* a request arrives: a new invocation of chat starts and
\* get_deepseek_reasoning issues its backend call
HandlerBegin ==
    /\ Len(handlers) < MaxHandlers
    /\ \E req \in ConcRequests, inst \in Instances :
        /\ handlers # <<>> => inst = handlers[1].inst
        /\ handlers' = Append(handlers,
              [inst |-> inst, req |-> req, pc |-> "reasoning",
               calls |-> << [stage |-> "reasoning", model |-> "deepseek-r1:8b",
                             client |-> StageClient(inst, "reasoning", use_proxy),
                             messages |-> ReasoningMessages(req.message)] >>,
               replies |-> <<>>, r1 |-> NoStage, resp |-> NoResp])
    /\ UNCHANGED <<xvars, qvars, total_time, rvars, uvars, cvars, pvars, net, svars>>

\* the reasoning call of invocation i ends
HandlerReasoningReturn(i) ==
    /\ handlers[i].pc = "reasoning"
    /\ \E o \in BackendOutcomes(ReasoningTexts(TRUE), FALSE) :
        LET h == handlers[i]
            r == GetDeepseekReasoning(o)
            got == [handlers EXCEPT ![i].replies = Append(h.replies, o), ![i].r1 = r]
        IN  handlers' =
              IF r.ok
              THEN [got EXCEPT ![i].pc = "response",
                               ![i].calls = Append(h.calls,
                                   [stage |-> "response", model |-> h.req.model,
                                    client |-> StageClient(h.inst, "response", use_proxy),
                                    messages |-> ResponseMessages(h.inst, h.req.message,
                                                                  HandlerReasoning(got, i))])]
              ELSE [got EXCEPT ![i].pc = "done", ![i].resp = ChatStageError(r)]
    /\ UNCHANGED <<xvars, qvars, total_time, rvars, uvars, cvars, pvars, net, svars>>

\* the response call of invocation i ends and the invocation answers
HandlerResponseReturn(i) ==
    /\ handlers[i].pc = "response"
    /\ \E o \in BackendOutcomes(ResponseTexts, FALSE), elapsed \in ElapsedTimes :
        LET h == handlers[i]
            r2 == GetFinalResponse(h.inst, o)
            r1 == [h.r1 EXCEPT !.value = HandlerReasoning(handlers, i)]
            answer == IF r2.ok THEN ChatResult(h.req, r1, r2, elapsed)
                      ELSE ChatStageError(r2)
        IN  handlers' = [handlers EXCEPT ![i].replies = Append(h.replies, o),
                                         ![i].resp = answer,
                                         ![i].pc = "done"]
    /\ UNCHANGED <<xvars, qvars, total_time, rvars, uvars, cvars, pvars, net, svars>>

ConcNext ==
    \/ HandlerBegin
    \/ \E i \in 1..Len(handlers) : HandlerReasoningReturn(i)
    \/ \E i \in 1..Len(handlers) : HandlerResponseReturn(i)

SpecConc == ConcInit /\ [][ConcNext]_vars

(***************************************************************************)
(* Several runs on one workflow object, started one after the other or     *)
(* while an earlier one is suspended in an await                           *)
(***************************************************************************)
\* the argument of the first and of the second call
RunSubjects == << <<"fusion">>, <<"solar">> >>

RunsInit ==
    /\ full_content = <<>>
    /\ extracted = <<FALSE, <<>>>>
    /\ client \in {[kind |-> k, api_type |-> OPENROUTER] : k \in {"research", "sales"}}
    /\ subject = <<>>
    /\ d_req = [inst |-> Main, payload |-> NoPayload]
    /\ use_proxy = FALSE
    /\ IdleInit

\* variant: results and context live on the workflow object, so a call
\* starts from what the call before it left there
NewRunOnObjectState(rs, subj) ==
    [subject |-> subj, pc |-> "ready", i |-> 1,
     context |-> IF rs = <<>> THEN <<>> ELSE rs[Len(rs)].context,
     results |-> IF rs = <<>> THEN <<>> ELSE rs[Len(rs)].results,
     prompts |-> <<>>, outcomes |-> <<>>]

\* the locals of a call at loop entry: results = {} and context = ""
NewRun(rs, subj) ==
    [subject |-> subj, pc |-> "ready", i |-> 1,
     context |-> <<>>, results |-> <<>>,
     prompts |-> <<>>, outcomes |-> <<>>]

\* what the chain answers to a prompt: a response that speaks of the
\* prompt's subject
ChainAnswer(prompt) ==
    [reasoning |-> <<"x">>,
     response |-> <<"on ">> \o SubSeq(prompt, 2, 2),
     model |-> "anthropic/claude-3-sonnet:beta",
     elapsed_time |-> 1,
     request_ids |-> [reasoning |-> "chatcmpl-1", response |-> "chatcmpl-1"]]

\* process_topic / process_company is called on the workflow object
RunBegin ==
    /\ Len(runs) < Len(RunSubjects)
    /\ runs' = Append(runs, NewRun(runs, RunSubjects[Len(runs) + 1]))
    /\ UNCHANGED <<xvars, qvars, total_time, kvars, uvars, cvars, pvars, net, svars>>

\* run j builds the prompt of its current step and suspends in execute
RunStepIssue(j) ==
    /\ runs[j].pc = "ready"
    /\ LET r == runs[j]
           prompt == BuildPrompt(client, CurrentTask(client, r.i), r.subject, r.context)
       IN  runs' = [runs EXCEPT ![j].prompts = Append(r.prompts, prompt),
                                ![j].pc = "await"]
    /\ UNCHANGED <<xvars, qvars, total_time, kvars, uvars, cvars, pvars, net, svars>>

\* execute returns to run j with the chain's answer or with None
RunStepReturn(j) ==
    /\ runs[j].pc = "await"
    /\ LET r == runs[j]
           task == CurrentTask(client, r.i)
       IN  \E result \in {None, ChainAnswer(r.prompts[Len(r.prompts)])} :
             runs' = [runs EXCEPT
                        ![j].results = RecordOutcome(r.results, task, result),
                        ![j].context = ContextAfter(r.context, task, result),
                        ![j].outcomes = Append(r.outcomes, result),
                        ![j].i = r.i + 1,
                        ![j].pc = IF r.i = Len(Tasks(client)) THEN "done" ELSE "ready"]
    /\ UNCHANGED <<xvars, qvars, total_time, kvars, uvars, cvars, pvars, net, svars>>

RunsNext ==
    \/ RunBegin
    \/ \E j \in 1..Len(runs) : RunStepIssue(j)
    \/ \E j \in 1..Len(runs) : RunStepReturn(j)

SpecRuns == RunsInit /\ [][RunsNext]_vars

(***************************************************************************)
(* The loop of process_topic over a task list in which descriptions recur: *)
(* a ResearchWorkflow whose self.tasks was assigned such a list            *)
(***************************************************************************)
\* task lists of three steps made of the first two configured research tasks
DupTaskLists ==
    LET t == ResearchTasks(OPENROUTER)
    IN  {<<a, b, c>> : a \in {t[1], t[2]}, b \in {t[1], t[2]}, c \in {t[1], t[2]}}

DupInit ==
    /\ full_content = <<>>
    /\ extracted = <<FALSE, <<>>>>
    /\ client \in {[kind |-> "research", api_type |-> OPENROUTER, tasks |-> ts] :
                        ts \in DupTaskLists}
    /\ subject = <<>>
    /\ d_req = [inst |-> Main, payload |-> NoPayload]
    /\ use_proxy = FALSE
    /\ IdleInit

SpecDup == DupInit /\ [][RunsNext]_vars

(***************************************************************************)
(* Web UI (src/frontend/app.py): every interaction runs the script once    *)
(***************************************************************************)
WorkflowTypes == {"simple", "multi", "sales"}

UiInit ==
    /\ full_content = <<>>
    /\ extracted = <<FALSE, <<>>>>
    /\ client = [kind |-> "direct", api_type |-> OPENROUTER]
    /\ subject = <<>>
    /\ d_req = [inst |-> Main, payload |-> NoPayload]
    /\ use_proxy = FALSE
    /\ IdleInit

\* variant: a change of backend replaces the simple agent but keeps the
\* cached workflows
ApplyBackendKeepCache(st, api_type) ==
    IF api_type # st.api_type
    THEN [st EXCEPT !.api_type = api_type,
                    !.simple_agent = [api_type |-> api_type]]
    ELSE st

\* the API selector block: if api_type != st.session_state.api_type: ...
ApplyBackend(st, api_type) ==
    IF api_type # st.api_type
    THEN [st EXCEPT !.api_type = api_type,
                    !.multi_agent_workflow = None,
                    !.sales_workflow = None,
                    !.simple_agent = [api_type |-> api_type]]
    ELSE st

\* the workflow selector block
ApplyWorkflow(st, workflow_type) == [st EXCEPT !.workflow_type = workflow_type]

\* the chat input block: the object of the selected workflow type serves
\* the prompt; a workflow not cached yet is constructed with the session's
\* api_type first. served records the object used and the backend selected.
ServePrompt(st) ==
    LET made == IF st.workflow_type = "multi" /\ st.multi_agent_workflow = None
                THEN [st EXCEPT !.multi_agent_workflow = [api_type |-> st.api_type]]
                ELSE IF st.workflow_type = "sales" /\ st.sales_workflow = None
                THEN [st EXCEPT !.sales_workflow = [api_type |-> st.api_type]]
                ELSE st
        obj == IF made.workflow_type = "simple" THEN made.simple_agent
               ELSE IF made.workflow_type = "multi" THEN made.multi_agent_workflow
               ELSE made.sales_workflow
    IN  [made EXCEPT !.served = Append(made.served,
                        [workflow_type |-> made.workflow_type,
                         object_api_type |-> obj.api_type,
                         selected |-> made.api_type])]

\* one run of the script with the widget values api_type and workflow_type
\* and with or without a submitted prompt
ScriptRun(st, api_type, workflow_type, prompted) ==
    LET selected == ApplyWorkflow(ApplyBackend(st, api_type), workflow_type)
    IN  IF prompted THEN ServePrompt(selected) ELSE selected

\* the user picks a backend in the sidebar
SelectBackend ==
    /\ \E a \in ApiTypes :
        /\ a # ui.api_type
        /\ ui' = ScriptRun(ui, a, ui.workflow_type, FALSE)
    /\ UNCHANGED <<xvars, qvars, total_time, kvars, rvars, cvars, pvars, net, svars>>

\* the user picks a workflow type in the sidebar
SelectWorkflow ==
    /\ \E w \in WorkflowTypes :
        /\ w # ui.workflow_type
        /\ ui' = ScriptRun(ui, ui.api_type, w, FALSE)
    /\ UNCHANGED <<xvars, qvars, total_time, kvars, rvars, cvars, pvars, net, svars>>

\* the user submits a prompt in the chat input
SubmitPrompt ==
    /\ Len(ui.served) < MaxPrompts
    /\ ui' = ScriptRun(ui, ui.api_type, ui.workflow_type, TRUE)
    /\ UNCHANGED <<xvars, qvars, total_time, kvars, rvars, cvars, pvars, net, svars>>

UiNext ==
    \/ SelectBackend
    \/ SelectWorkflow
    \/ SubmitPrompt

SpecUi == UiInit /\ [][UiNext]_vars

(***************************************************************************)
(* Internet search tool (internet_search_tool of research_workflow.py,     *)
(* sales_qualification_workflow.py and simple_flow.py)                     *)
(***************************************************************************)
\* max_results of the ddgs.text call
MaxResults == 5

\* result dicts the provider yields: with the keys the tool reads, with the
\* address under another key, and with a title alone
ProviderResults ==
    { [title |-> "T", link |-> "U", body |-> "B"],
      [title |-> "T", href |-> "U", body |-> "B"],
      [title |-> "T"] }

\* dict.get(key, "")
Get(d, key) == IF key \in DOMAIN d THEN d[key] ELSE ""

\* the dict appended for one provider result
ToSearchResult(result) ==
    [title |-> Get(result, "title"),
     url |-> Get(result, "link"),
     snippet |-> Get(result, "body")]

SearchInit ==
    /\ full_content = <<>>
    /\ extracted = <<FALSE, <<>>>>
    /\ client = [kind |-> "direct", api_type |-> OPENROUTER]
    /\ subject = <<>>
    /\ d_req = [inst |-> Main, payload |-> NoPayload]
    /\ use_proxy = FALSE
    /\ IdleInit

\* results = []; ddgs = DDGS(); the for loop is entered
SearchStart ==
    /\ q_pc = "idle"
    /\ q_pc' = "iterating"
    /\ q_results' = <<>>
    /\ UNCHANGED <<xvars, q_raw, q_failed, total_time, hvars, cvars, pvars, net, svars>>

\* DDGS() raises: the except clause prints and the function returns results
SearchConstructFail ==
    /\ q_pc = "idle"
    /\ q_pc' = "returned"
    /\ q_results' = <<>>
    /\ q_failed' = "construction"
    /\ UNCHANGED <<xvars, q_raw, total_time, hvars, cvars, pvars, net, svars>>

\* the provider yields one more result (it yields max_results at most) and
\* the loop body appends its dict
SearchYield ==
    /\ q_pc = "iterating"
    /\ Len(q_raw) < MaxResults
    /\ \E result \in ProviderResults :
        /\ q_raw' = Append(q_raw, result)
        /\ q_results' = Append(q_results, ToSearchResult(result))
    /\ UNCHANGED <<xvars, q_pc, q_failed, total_time, hvars, cvars, pvars, net, svars>>

\* variant: the except clause empties results before the return
SearchFailEmpty ==
    /\ q_pc = "iterating"
    /\ q_pc' = "returned"
    /\ q_failed' = "iteration"
    /\ q_results' = <<>>
    /\ UNCHANGED <<xvars, q_raw, total_time, hvars, cvars, pvars, net, svars>>

\* ddgs.text raises, in the call or between two results: the except clause
\* prints and the function returns results as gathered so far
SearchFail ==
    /\ q_pc = "iterating"
    /\ q_pc' = "returned"
    /\ q_failed' = "iteration"
    /\ UNCHANGED <<xvars, q_raw, q_results, total_time, hvars, cvars, pvars, net, svars>>

\* the provider is exhausted: the loop ends and the function returns results
SearchEnd ==
    /\ q_pc = "iterating"
    /\ q_pc' = "returned"
    /\ UNCHANGED <<xvars, q_raw, q_results, q_failed, total_time, hvars, cvars, pvars, net, svars>>

SearchNext ==
    \/ SearchStart
    \/ SearchConstructFail
    \/ SearchYield
    \/ SearchFail
    \/ SearchEnd

SpecSearch == SearchInit /\ [][SearchNext]_vars

(***************************************************************************)
(* Properties                                                              *)
(***************************************************************************)
\* a occurs in b as a contiguous piece
IsInfix(a, b) == \E i \in 0..(Len(b) - Len(a)) : SubSeq(b, i + 1, i + Len(a)) = a

\* number of steps of the running workflow, and its k-th step
NumSteps == Len(Tasks(client))
StepAt(k) == Tasks(client)[k]
StepDescriptions(n) == {StepAt(k).description : k \in 1..n}

\* number of template tokens after the context in the prompt of a step
FooterLen(task) == IF client.kind = "research" /\ task.agent.id = "synthesis_agent" THEN 1 ELSE 5

\* the context embedded in the prompt issued for step k: what stands between
\* the "Previous Analysis" heading and the task instructions
EmbeddedContext(k) ==
    SubSeq(p_prompts[k], Len(subject) + 3, Len(p_prompts[k]) - FooterLen(StepAt(k)))

StepFailed(k) == p_outcomes[k].kind # "ok"
StepSucceeded(k) == p_outcomes[k].kind = "ok"

\* C1: a finished pipeline run returns a mapping with exactly one entry per
\* configured step, keyed by the step descriptions, whatever steps failed.
C1_OneEntryPerStep ==
    (IsPipeline /\ p_pc = "done") =>
        /\ DOMAIN results = StepDescriptions(NumSteps)
        /\ Cardinality(DOMAIN results) = NumSteps

\* a finished research run in which some steps failed and some succeeded
C1_Witness ==
    /\ client.kind = "research"
    /\ p_pc = "done"
    /\ \E k \in 1..Len(p_outcomes) : StepFailed(k)
    /\ \E k \in 1..Len(p_outcomes) : StepSucceeded(k)
    /\ Cardinality(DOMAIN results) = 5

\* C2: a failed step (non-200 answer, transport exception, connection
\* refused) is recorded as that step's error outcome and never ends the run:
\* the run finishes only after all N steps have been attempted.
C2_FailureDoesNotAbort ==
    IsPipeline =>
        /\ \A k \in 1..Len(p_outcomes) :
              StepFailed(k) =>
                 /\ StepAt(k).description \in DOMAIN results
                 /\ results[StepAt(k).description] = [error |-> "Task failed"]
                 /\ (k < NumSteps => (p_pc # "done" \/ Len(p_prompts) > k))
        /\ p_pc \in {"ready", "await", "done"}
        /\ (p_pc = "done" => Len(p_prompts) = NumSteps /\ Len(p_outcomes) = NumSteps)

\* a finished run that met every kind of failure and still ran its last step
C2_Witness ==
    /\ IsPipeline
    /\ p_pc = "done"
    /\ {"non200", "refused", "transport"} \subseteq {p_outcomes[k].kind : k \in 1..Len(p_outcomes)}
    /\ StepSucceeded(NumSteps)

\* C3: if step k fails, the context embedded in the prompt of step k+1 is
\* the context that was embedded in the prompt of step k.
C3_FailedStepKeepsContext ==
    IsPipeline =>
        \A k \in 1..Len(p_outcomes) :
            (StepFailed(k) /\ k + 1 <= Len(p_prompts)) =>
                EmbeddedContext(k + 1) = EmbeddedContext(k)

\* a step failed after an earlier success and the next prompt was built
C3_Witness ==
    /\ IsPipeline
    /\ \E k \in 1..Len(p_outcomes) :
        /\ StepFailed(k)
        /\ k + 1 <= Len(p_prompts)
        /\ EmbeddedContext(k) # <<>>
        /\ EmbeddedContext(k + 1) = context

\* C4: if step k succeeds with response R, the context embedded in the
\* prompt of step k+1 and of every later step of the run contains R.
C4_SuccessReachesLaterPrompts ==
    IsPipeline =>
        \A k \in 1..Len(p_outcomes) : \A m \in 1..Len(p_prompts) :
            (StepSucceeded(k) /\ k < m) =>
                IsInfix(p_outcomes[k].ret.response, EmbeddedContext(m))

\* a success, then a different success, then a third prompt
C4_Witness ==
    /\ IsPipeline
    /\ Len(p_prompts) >= 3
    /\ StepSucceeded(1) /\ StepSucceeded(2)
    /\ p_outcomes[1].ret.response = <<"r1">>
    /\ p_outcomes[2].ret.response = <<"r2", "x">>

\* C5: the steps run in configured order, one chain invocation per step,
\* and an invocation is issued only when every earlier invocation has
\* returned and its outcome has been recorded.
C5_StrictlySequential ==
    IsPipeline =>
        /\ Len(p_prompts) = Len(p_outcomes) + (IF p_pc = "await" THEN 1 ELSE 0)
        /\ Len(p_prompts) <= NumSteps
        /\ DOMAIN results = StepDescriptions(Len(p_outcomes))
        /\ \A k \in 1..Len(p_prompts) :
              p_prompts[k] = BuildPrompt(client, StepAt(k), subject, EmbeddedContext(k))
        /\ (net.state # "idle" =>
              /\ p_pc = "await"
              /\ net.payload.message = p_prompts[Len(p_prompts)])
        /\ (s_pc # "idle" => net.state = "handling")

\* the third invocation of a sales run is in flight, two outcomes recorded
C5_Witness ==
    /\ client.kind = "sales"
    /\ p_pc = "await"
    /\ Len(p_prompts) = 3
    /\ Len(p_outcomes) = 2
    /\ s_pc = "response"

\* the reply of the reasoning call of the request being answered
FirstReply == s_replies[1]

\* C6: a /chat request answered with 200 issued exactly two backend calls,
\* the reasoning call and then the response call, and the second call has an
\* assistant turn <thinking>{reasoning}</thinking> with the reasoning
\* extracted from the first call's reply.
C6_TwoCallsReasoningInjected ==
    s_resp.status = 200 =>
        /\ Len(s_calls) = 2
        /\ s_calls[1].stage = "reasoning"
        /\ s_calls[2].stage = "response"
        /\ Len(s_replies) = 2
        /\ \E j \in 1..Len(s_calls[2].messages) :
              /\ s_calls[2].messages[j].role = "assistant"
              /\ s_calls[2].messages[j].content =
                    <<"<thinking>">> \o ExtractReasoning(FirstReply.content) \o <<"</thinking>">>

\* a 200 answer of the same-service instance whose reasoning reply carried
\* a delimited region
C6_Witness ==
    /\ s_resp.status = 200
    /\ s_inst = MainOllama
    /\ FirstReply.content = <<ThinkOpen, " ", "x", "\n", ThinkClose, "y">>
    /\ s_calls[2].messages[3].content = <<"<thinking>", "x", "</thinking>">>

\* a backend call of the request raised
CallFailed(k) == k <= Len(s_replies) /\ s_replies[k].kind = "raise"

\* C7: if the reasoning call or the response call fails, /chat answers 500
\* with a detail string and no ChatResponse; a reasoning already obtained is
\* not returned when only the response call fails.
C7_AtomicFailure ==
    (s_pc = "idle" /\ (CallFailed(1) \/ CallFailed(2))) =>
        /\ s_resp.status = 500
        /\ s_resp.body = None
        /\ s_resp.detail # <<>>
        /\ (net.state = "response" => net.resp = s_resp)
        /\ (d_resp.state = "response" => d_resp.resp = s_resp)

\* the reasoning stage returned a non-empty reasoning, the response call
\* raised, and the caller holds the 500
C7_Witness ==
    /\ IsDirect
    /\ p_pc = "done"
    /\ s_r1.ok /\ s_r1.value # <<>>
    /\ CallFailed(2)
    /\ d_resp.state = "response"
    /\ d_resp.resp.status = 500

\* C8: the detail that reaches the /chat caller names the stage that failed
\* and carries the backend's error message, also after the outer except
\* clause re-wrapped the stage's exception.
C8_ErrorNamesStage ==
    (s_pc = "idle" /\ s_resp # NoResp) =>
        /\ CallFailed(1) =>
              /\ IsInfix(<<"Error getting reasoning: ">> \o s_replies[1].msg, s_resp.detail)
              /\ ~IsInfix(<<"Error getting response: ">>, s_resp.detail)
        /\ CallFailed(2) =>
              /\ IsInfix(<<"Error getting response: ">> \o s_replies[2].msg, s_resp.detail)
              /\ ~IsInfix(<<"Error getting reasoning: ">>, s_resp.detail)

\* the response call raised and the caller holds the re-wrapped detail
C8_Witness ==
    /\ IsDirect
    /\ p_pc = "done"
    /\ CallFailed(2)
    /\ d_resp.resp.detail = <<"500", ": ", "Error getting response: ", "Connection error.">>

\* the text has an opening marker with a closing marker somewhere after it
HasRegion(s) ==
    \E i, j \in 1..Len(s) : i < j /\ s[i] = ThinkOpen /\ s[j] = ThinkClose

\* r is m without its leading and trailing whitespace
IsTrimOf(r, m) ==
    \E a, b \in 0..Len(m) :
        /\ a + b <= Len(m)
        /\ r = SubSeq(m, a + 1, Len(m) - b)
        /\ \A k \in 1..a : m[k] \in Whitespace
        /\ \A k \in (Len(m) - b + 1)..Len(m) : m[k] \in Whitespace
        /\ (r # <<>> => r[1] \notin Whitespace /\ r[Len(r)] \notin Whitespace)

\* i..j is the region the pattern matches: the leftmost opening marker that
\* has a closing marker after it, up to the nearest closing marker
IsFirstRegion(s, i, j) ==
    /\ i < j
    /\ s[i] = ThinkOpen
    /\ s[j] = ThinkClose
    /\ \A k \in 1..(i - 1) : s[k] # ThinkOpen
    /\ \A k \in (i + 1)..(j - 1) : s[k] # ThinkClose

\* C9: for a text with a <think>...</think> region the extracted reasoning
\* is the whitespace-trimmed interior of the region; for a text without a
\* complete region (an unclosed <think> included) it is the text unchanged.
C9_ExtractTrimmedInterior ==
    extracted[1] =>
        IF HasRegion(full_content)
        THEN \E i, j \in 1..Len(full_content) :
                /\ IsFirstRegion(full_content, i, j)
                /\ IsTrimOf(extracted[2], SubSeq(full_content, i + 1, j - 1))
        ELSE extracted[2] = full_content

\* a region spanning a line break whose interior is trimmed on both sides
C9_Witness ==
    /\ extracted[1]
    /\ full_content = <<ThinkOpen, " ", "a", "\n", ThinkClose>>
    /\ extracted[2] = <<"a">>

\* the text has two regions, one after the other
TwoRegions(s) ==
    \E i, j, k, l \in 1..Len(s) :
        /\ i < j /\ j < k /\ k < l
        /\ s[i] = ThinkOpen /\ s[j] = ThinkClose
        /\ s[k] = ThinkOpen /\ s[l] = ThinkClose

\* position of the first closing marker after the first opening marker
FirstCloseAfterOpen(s) ==
    LET i == CHOOSE x \in 1..Len(s) : s[x] = ThinkOpen /\ \A y \in 1..(x - 1) : s[y] # ThinkOpen
    IN  CHOOSE x \in (i + 1)..Len(s) : s[x] = ThinkClose /\ \A y \in (i + 1)..(x - 1) : s[y] # ThinkClose

\* C10: for a text with two or more regions the extracted reasoning is the
\* content of the first region only, ending at the first closing marker;
\* what follows that marker has no influence on the result.
C10_FirstRegionOnly ==
    (extracted[1] /\ TwoRegions(full_content)) =>
        LET j == FirstCloseAfterOpen(full_content)
            i == CHOOSE x \in 1..(j - 1) : IsFirstRegion(full_content, x, j)
        IN  /\ IsTrimOf(extracted[2], SubSeq(full_content, i + 1, j - 1))
            /\ \A k \in 1..Len(extracted[2]) : extracted[2][k] # ThinkClose
            /\ \A t \in Texts(MaxLen - j) :
                  ExtractReasoning(SubSeq(full_content, 1, j) \o t) = extracted[2]

\* two regions with different contents: the first one is returned
C10_Witness ==
    /\ extracted[1]
    /\ full_content = <<ThinkOpen, "a", ThinkClose, ThinkOpen, ThinkClose>>
    /\ extracted[2] = <<"a">>


\* the answer is a ChatResponse for a request with show_reasoning = flag
AnsweredWith(flag) == s_resp.status = 200 /\ s_req.show_reasoning = flag

\* the fields of a ChatResponse that show_reasoning has no say in, as the
\* backend replies and the request determine them
OtherFieldsFromReplies ==
    /\ s_resp.body.response = s_replies[2].content
    /\ s_resp.body.model = s_req.model
    /\ s_resp.body.elapsed_time \in ElapsedTimes
    /\ s_resp.body.request_ids.reasoning = (IF s_replies[1].hasId THEN s_replies[1].id ELSE "unknown")
    /\ s_resp.body.request_ids.response = (IF s_replies[2].hasId THEN s_replies[2].id ELSE "unknown")

\* C11: a successful /chat request with show_reasoning = false returns the
\* empty string as reasoning, whatever the chain produced; response, model,
\* elapsed_time and request_ids are what they are with show_reasoning = true.
C11_ReasoningHidden ==
    /\ AnsweredWith(FALSE) => (s_resp.body.reasoning = <<>> /\ OtherFieldsFromReplies)
    /\ AnsweredWith(TRUE) => (s_resp.body.reasoning = ExtractReasoning(FirstReply.content)
                              /\ OtherFieldsFromReplies)

\* the chain produced a non-empty reasoning and the caller asked to hide it
C11_Witness ==
    /\ AnsweredWith(FALSE)
    /\ s_r1.value = <<"x">>
    /\ s_resp.body.reasoning = <<>>
    /\ s_resp.body.response = <<"r1">>


\* reply k of the current request is a well-formed completion that carries
\* no id attribute
ReplyWithoutId(k) ==
    /\ Len(s_replies) >= k
    /\ s_replies[k].kind = "reply"
    /\ ~s_replies[k].hasId
    /\ s_replies[k].choices = "one"
    /\ s_replies[k].hasContent

\* C12: a backend reply without an identifier gives the stage the request id
\* "unknown" and the stage succeeds all the same; on success request_ids has
\* exactly the keys "reasoning" and "response".
C12_UnknownRequestId ==
    /\ ReplyWithoutId(1) => (s_r1.ok /\ s_r1.id = "unknown")
    /\ ReplyWithoutId(2) => (s_resp.status = 200
                             /\ s_resp.body.request_ids.response = "unknown")
    /\ (ReplyWithoutId(1) /\ s_resp.status = 200)
            => s_resp.body.request_ids.reasoning = "unknown"
    /\ s_resp.status = 200 => DOMAIN s_resp.body.request_ids = {"reasoning", "response"}

\* both stages were answered without an id and the request succeeded
C12_Witness ==
    /\ ReplyWithoutId(1)
    /\ ReplyWithoutId(2)
    /\ s_resp.status = 200
    /\ s_resp.body.request_ids = [reasoning |-> "unknown", response |-> "unknown"]


\* the running context once the outcome of step k has been recorded: what
\* the next prompt embeds, or the context variable while no later prompt
\* has been built
ContextAfterStep(k) == IF k < Len(p_prompts) THEN EmbeddedContext(k + 1) ELSE context

\* the block "\n\nPrevious Step ({label}):\n{response}"
PreviousStepBlock(label, response) == <<"\n\nPrevious Step (", label, "):\n">> \o response

\* C13 as stated: the block appended after a successful step is labelled
\* with the role of the step's agent.
C13_BlockLabelledWithRole ==
    IsPipeline =>
        \A k \in 1..Len(p_outcomes) :
            StepSucceeded(k) =>
                ContextAfterStep(k) = EmbeddedContext(k)
                    \o PreviousStepBlock(StepAt(k).agent.role, p_outcomes[k].ret.response)

\* C13: after a step succeeds with response R the running context grows by
\* exactly "\n\nPrevious Step ({name}):\n{R}", where {name} is the name of
\* the step's agent (not its role); nothing else is appended.
C13_ContextGrowsByNamedBlock ==
    IsPipeline =>
        \A k \in 1..Len(p_outcomes) :
            StepSucceeded(k) =>
                ContextAfterStep(k) = EmbeddedContext(k)
                    \o PreviousStepBlock(StepAt(k).agent.name, p_outcomes[k].ret.response)

\* the second step of a research run succeeded on top of an earlier block
C13_Witness ==
    /\ client.kind = "research"
    /\ Len(p_outcomes) >= 2
    /\ StepSucceeded(1) /\ StepSucceeded(2)
    /\ context = PreviousStepBlock("Literature Reviewer", p_outcomes[1].ret.response)
                    \o PreviousStepBlock("Gap Analyzer", p_outcomes[2].ret.response)
    /\ StepAt(2).agent.role = "Research Gap Analyst"


\* the last n tokens of a text
Tail_n(p, n) == SubSeq(p, Len(p) - n + 1, Len(p))

\* prompt k ends with the fixed structured-report outline
HasOutline(k) ==
    Tail_n(p_prompts[k], 1) =
        <<"\n\nYour task is to synthesize all previous analyses into a clear, comprehensive final report.\nFollow this structure: EXECUTIVE SUMMARY ... COMPREHENSIVE RESEARCH REPORT ... Focus on clarity, actionability, and practical implications.">>

\* prompt k ends with the generic request of its workflow, naming the
\* description and the role of step k
HasGenericRequest(k) ==
    /\ Len(p_prompts[k]) >= 5
    /\ Tail_n(p_prompts[k], 5) =
        <<"\n\nYour Task: ", StepAt(k).description, "\nAs a ", StepAt(k).agent.role,
          IF client.kind = "research"
          THEN ", analyze this topic and provide: ... Be thorough and analytical in your response."
          ELSE ", conduct exhaustive research and provide: ... Be analytical and fact-focused in your response.">>

\* prompt k carries the subject of the run after its heading, and the
\* prompt in flight carries the running context
EmbedsSubjectAndContext(k) ==
    /\ SubSeq(p_prompts[k], 2, Len(subject) + 1) = subject
    /\ (k = 1 => EmbeddedContext(k) = <<>>)
    /\ ((k = Len(p_prompts) /\ p_pc = "await") => EmbeddedContext(k) = context)

\* C14 as stated: in every workflow the last step, and only it, is prompted
\* with the report outline, every other step with the generic request.
C14_TerminalStepGetsOutline ==
    IsPipeline =>
        \A k \in 1..Len(p_prompts) :
            /\ (k = NumSteps <=> HasOutline(k))
            /\ (k # NumSteps => HasGenericRequest(k))
            /\ EmbedsSubjectAndContext(k)

\* C14: the research workflow prompts its synthesis step, and only that
\* step, with the fixed structured-report outline and every other step with
\* the generic request naming description and role; the sales workflow
\* prompts every step, its terminal profile step included, with its generic
\* request. All prompts embed the subject and the accumulated context.
C14_OnlyResearchSynthesisGetsOutline ==
    IsPipeline =>
        \A k \in 1..Len(p_prompts) :
            /\ HasOutline(k) <=> (client.kind = "research" /\ k = NumSteps)
            /\ HasGenericRequest(k) <=> ~(client.kind = "research" /\ k = NumSteps)
            /\ EmbedsSubjectAndContext(k)

\* the synthesis prompt of a research run was built on a non-empty context
C14_Witness ==
    /\ client.kind = "research"
    /\ Len(p_prompts) = 5
    /\ HasOutline(5)
    /\ HasGenericRequest(4)
    /\ EmbeddedContext(5) # <<>>

\* the terminal prompt of a sales run was built: it is the generic request
C14_SalesWitness ==
    /\ client.kind = "sales"
    /\ Len(p_prompts) = 4
    /\ HasGenericRequest(4)
    /\ ~HasOutline(4)
    /\ StepAt(4).description = "Synthesize comprehensive company profile"


\* the entry recorded for step k
EntryOf(k) == results[StepAt(k).description]

\* C15: every entry of the result mapping is either the chain's reasoning,
\* response and elapsed seconds of that step, unchanged, or an error message
\* alone; a step is recorded as a success exactly when its chain invocation
\* returned a result.
C15_TwoEntryShapes ==
    IsPipeline =>
        \A k \in 1..Len(p_outcomes) :
            /\ ("error" \notin DOMAIN EntryOf(k)) <=> (p_outcomes[k].ret # None)
            /\ (p_outcomes[k].ret # None) <=> (p_outcomes[k].kind = "ok")
            /\ p_outcomes[k].ret # None =>
                  /\ DOMAIN EntryOf(k) = {"reasoning", "response", "time"}
                  /\ EntryOf(k).reasoning = p_outcomes[k].ret.reasoning
                  /\ EntryOf(k).response = p_outcomes[k].ret.response
                  /\ EntryOf(k).time = p_outcomes[k].ret.elapsed_time
            /\ p_outcomes[k].ret = None => DOMAIN EntryOf(k) = {"error"}

\* a success entry with a reasoning, a two-token response and one second,
\* next to an error entry
C15_Witness ==
    /\ IsPipeline
    /\ Len(p_outcomes) >= 2
    /\ EntryOf(1) = [error |-> "Task failed"]
    /\ p_outcomes[2].kind = "ok"
    /\ EntryOf(2).reasoning # <<>>
    /\ EntryOf(2).response = <<"r2", "x">>
    /\ EntryOf(2).time = 1


\* the roles of the turns of a message sequence
Roles(msgs) == [i \in 1..Len(msgs) |-> msgs[i].role]

\* the messages of the response call of the request being handled
ResponseCall == s_calls[2]

\* C16: the response-stage messages are [user: user_input, assistant:
\* <thinking>reasoning</thinking>] on main.py and [system, user: user_input,
\* assistant: <thinking>reasoning</thinking>, user: follow-up] on
\* main_ollama.py, whatever the request.
C16_ShapePerInstance ==
    Len(s_calls) = 2 =>
        /\ ResponseCall.stage = "response"
        /\ s_inst = Main =>
              /\ Roles(ResponseCall.messages) = <<"user", "assistant">>
              /\ ResponseCall.messages[1].content = s_req.message
              /\ ResponseCall.messages[2].content =
                    <<"<thinking>">> \o s_r1.value \o <<"</thinking>">>
        /\ s_inst = MainOllama =>
              /\ Roles(ResponseCall.messages) = <<"system", "user", "assistant", "user">>
              /\ ResponseCall.messages[1].content = <<"You are a helpful assistant that provides clear, accurate, and well-structured responses.">>
              /\ ResponseCall.messages[2].content = s_req.message
              /\ ResponseCall.messages[3].content =
                    <<"<thinking>">> \o s_r1.value \o <<"</thinking>">>
              /\ ResponseCall.messages[4].content = <<"Based on this reasoning, please provide a clear and comprehensive response.">>

\* main.py asked for the ollama-side model without reasoning still sends
\* Shape A
C16_Witness ==
    /\ Len(s_calls) = 2
    /\ s_inst = Main
    /\ s_req.model = "phi4"
    /\ ~s_req.show_reasoning
    /\ s_r1.value # <<>>
    /\ Len(ResponseCall.messages) = 2

\* main_ollama.py asked for the cross-service model still sends Shape B
C16_OllamaWitness ==
    /\ Len(s_calls) = 2
    /\ s_inst = MainOllama
    /\ s_req.model = "anthropic/claude-3.5-sonnet"
    /\ Len(ResponseCall.messages) = 4


\* C17: every chain invocation of a pipeline run is posted to the service
\* instance selected by the api_type the workflow was constructed with,
\* with that api_type's model binding, and is handled by that instance.
C17_RoutedToSelectedInstance ==
    (IsPipeline /\ net.state # "idle") =>
        /\ net.url = GetApiUrl(client.api_type)
        /\ net.payload.model = Payload(client.api_type, <<>>).model
        /\ (s_pc # "idle" => s_inst = InstanceAt(GetApiUrl(client.api_type)))


\* every returned result has exactly the keys title, url and snippet
WellShaped(rs) == \A i \in 1..Len(rs) : DOMAIN rs[i] = {"title", "url", "snippet"}

\* the tool is in its body or has returned a list: no exception leaves it
NeverRaises == q_pc \in {"idle", "iterating", "returned"}

C18_ConstructionWitness ==
    /\ q_pc = "returned"
    /\ q_failed = "construction"
    /\ q_results = <<>>


\* what a stage call is sent with, besides the transport: base URL and API
\* key of its client, model and messages, as instance, request and
\* reasoning determine them
CallAsWithoutProxy(k) ==
    /\ s_calls[k].client.base_url =
          (IF s_inst = Main /\ k = 2 THEN "https://openrouter.ai/api/v1"
           ELSE "http://localhost:11434/v1")
    /\ s_calls[k].client.api_key =
          (IF s_inst = Main /\ k = 2 THEN "$OPENROUTER_API_KEY" ELSE "ollama")
    /\ s_calls[k].model = (IF k = 1 THEN "deepseek-r1:8b" ELSE s_req.model)
    /\ s_calls[k].messages =
          (IF k = 1 THEN ReasoningMessages(s_req.message)
           ELSE ResponseMessages(s_inst, s_req.message, s_r1.value))

\* C19: with the proxy flag off the backend clients carry no custom HTTP
\* client; with it on, http and https go to the local inspection endpoint
\* with verification off; base URL, API key, model and messages of every
\* call are the same under both settings.
C19_ProxyChangesTransportOnly ==
    \A k \in 1..Len(s_calls) :
        /\ ~use_proxy => s_calls[k].client.http_client = None
        /\ use_proxy =>
              s_calls[k].client.http_client =
                  [proxies |-> [http |-> "http://127.0.0.1:8080",
                                https |-> "http://127.0.0.1:8080"],
                   verify |-> FALSE]
        /\ CallAsWithoutProxy(k)

\* main.py, proxy on, both calls issued: the response call goes to
\* openrouter's base URL through the proxy
C19_Witness ==
    /\ use_proxy
    /\ s_inst = Main
    /\ Len(s_calls) = 2
    /\ s_calls[2].client.base_url = "https://openrouter.ai/api/v1"
    /\ s_calls[2].client.http_client # None
    /\ s_calls[1].client.base_url = "http://localhost:11434/v1"

\* the same with the proxy off: no custom HTTP client
C19_DirectWitness ==
    /\ ~use_proxy
    /\ s_inst = Main
    /\ Len(s_calls) = 2
    /\ s_calls[2].client.base_url = "https://openrouter.ai/api/v1"
    /\ s_calls[2].client.http_client = None


\* the steps of the finished run that succeeded
SucceededSteps == {k \in 1..Len(p_outcomes) : StepSucceeded(k)}

\* the sum of the elapsed times the chain reported for a set of steps
RECURSIVE SumElapsed(_)
SumElapsed(ks) ==
    IF ks = {} THEN 0
    ELSE LET k == CHOOSE x \in ks : TRUE
         IN  p_outcomes[k].ret.elapsed_time + SumElapsed(ks \ {k})

\* C20: the total time a caller of a pipeline run reports is the sum of the
\* elapsed times of exactly the outcomes that succeeded; an outcome with an
\* error adds nothing and the summation always completes.
C20_TotalOverSuccesses ==
    /\ total_time # NoTotal =>
          /\ IsPipeline /\ p_pc = "done"
          /\ total_time.who \in Callers
          /\ total_time.total = SumElapsed(SucceededSteps)
    /\ (IsPipeline /\ p_pc = "done") => ENABLED Report \/ total_time # NoTotal

\* a failed step between successes of one second each: the total is 2
C20_Witness ==
    /\ total_time.who = "ui"
    /\ total_time.total = 2
    /\ Len(p_outcomes) >= 3
    /\ StepSucceeded(1) /\ StepFailed(2) /\ StepSucceeded(3)
    /\ p_outcomes[1].ret.elapsed_time = 1
    /\ p_outcomes[3].ret.elapsed_time = 1
    /\ \A k \in 4..Len(p_outcomes) : StepFailed(k)

\* the CLI reports 0 for a run in which every step failed
C20_AllFailedWitness ==
    /\ total_time.who = "cli"
    /\ total_time.total = 0
    /\ p_pc = "done"
    /\ \A k \in 1..Len(p_outcomes) : StepFailed(k)


\* what request i alone determines: the messages of its calls and, once it
\* answered 200, the fields of its answer, from its own request and the
\* replies to its own calls
OwnResult(i) ==
    LET h == handlers[i]
    IN  /\ h.calls[1].messages = ReasoningMessages(h.req.message)
        /\ Len(h.calls) = 2 =>
              /\ h.calls[2].model = h.req.model
              /\ h.calls[2].messages =
                    ResponseMessages(h.inst, h.req.message,
                                     ExtractReasoning(h.replies[1].content))
        /\ (h.pc = "done" /\ h.resp.status = 200) =>
              /\ h.resp.body.reasoning = ExtractReasoning(h.replies[1].content)
              /\ h.resp.body.response = h.replies[2].content
              /\ h.resp.body.model = h.req.model

\* C21: however concurrent /chat requests interleave, the reasoning injected
\* into a request's response call is the one extracted from that request's
\* own reasoning call, and its answer is made of its own message, model and
\* replies only.
C21_RequestsIsolated == \A i \in 1..Len(handlers) : OwnResult(i)

\* two requests in progress with different messages and reasonings; the
\* second one overtook the first and has answered
C21_Witness ==
    /\ Len(handlers) = 2
    /\ handlers[1].pc = "response"
    /\ handlers[2].pc = "done"
    /\ handlers[2].resp.status = 200
    /\ handlers[1].req.message # handlers[2].req.message
    /\ handlers[1].r1.value = <<"x">>
    /\ handlers[2].resp.body.reasoning = <<"z">>


\* the context embedded in the k-th prompt of run j
RunEmbeddedContext(j, k) ==
    SubSeq(runs[j].prompts[k], Len(runs[j].subject) + 3,
           Len(runs[j].prompts[k]) - FooterLen(StepAt(k)))

\* the entry run j holds for its step k, as its own outcome makes it
OwnEntry(j, k) ==
    IF runs[j].outcomes[k] = None THEN [error |-> "Task failed"]
    ELSE [reasoning |-> runs[j].outcomes[k].reasoning,
          response |-> runs[j].outcomes[k].response,
          time |-> runs[j].outcomes[k].elapsed_time]

\* C22: every run on a workflow object starts with an empty context and an
\* empty mapping; no response of another run occurs in its prompts, and its
\* mapping holds its own outcomes only.
C22_RunsStartFresh ==
    \A j \in 1..Len(runs) :
        /\ Len(runs[j].prompts) >= 1 => RunEmbeddedContext(j, 1) = <<>>
        /\ DOMAIN runs[j].results = StepDescriptions(Len(runs[j].outcomes))
        /\ \A k \in 1..Len(runs[j].outcomes) :
              runs[j].results[StepAt(k).description] = OwnEntry(j, k)
        /\ \A m \in 1..Len(runs) : \A k \in 1..Len(runs[m].outcomes) :
              (m # j /\ runs[m].outcomes[k] # None) =>
                  \A n \in 1..Len(runs[j].prompts) :
                      ~IsInfix(runs[m].outcomes[k].response, runs[j].prompts[n])

\* the second run started after the first had finished with successes and
\* has built its first prompt
C22_Witness ==
    /\ Len(runs) = 2
    /\ runs[1].pc = "done"
    /\ runs[1].context # <<>>
    /\ runs[1].outcomes[1] # None
    /\ Len(runs[2].prompts) = 1
    /\ Len(runs[2].outcomes) = 0
    /\ runs[2].results = <<>>

\* the two runs are suspended at the same time, each after a success
C22_InterleavedWitness ==
    /\ Len(runs) = 2
    /\ runs[1].pc = "await" /\ runs[2].pc = "await"
    /\ Len(runs[1].outcomes) = 2 /\ runs[1].outcomes[2] # None
    /\ Len(runs[2].outcomes) = 1 /\ runs[2].outcomes[1] # None


\* the backend calls of a stage issued for the request being handled
CallsOf(stage) == {k \in 1..Len(s_calls) : s_calls[k].stage = stage}

\* prompt m was built for step k: it names the description of step k, or is
\* the outline prompt of the research synthesis step
PromptNames(m, k) ==
    IF client.kind = "research" /\ k = NumSteps THEN HasOutline(m)
    ELSE /\ Len(p_prompts[m]) >= 5
         /\ p_prompts[m][Len(p_prompts[m]) - 3] = StepAt(k).description

\* C23: nothing is retried: a /chat request issues at most one reasoning
\* call and at most one response call, and a pipeline run at most one chain
\* invocation per step, whatever fails.
C23_NoRetry ==
    /\ Cardinality(CallsOf("reasoning")) <= 1
    /\ Cardinality(CallsOf("response")) <= 1
    /\ Len(s_replies) <= Len(s_calls)
    /\ IsPipeline =>
          \A k \in 1..NumSteps :
              Cardinality({m \in 1..Len(p_prompts) : PromptNames(m, k)}) <= 1

\* the reasoning call of the first step failed, the request was answered
\* 500 after that one call, and the run went on to its second step
C23_Witness ==
    /\ IsPipeline
    /\ Len(p_outcomes) = 1
    /\ p_outcomes[1].kind = "non200"
    /\ Len(p_prompts) = 2
    /\ Len(s_calls) = 1
    /\ s_replies[1].kind = "raise"
    /\ s_resp.status = 500

\* a direct request whose response call failed after a good reasoning call
C23_ResponseFailedWitness ==
    /\ IsDirect
    /\ Len(s_calls) = 2
    /\ Len(s_replies) = 2
    /\ s_replies[2].kind = "raise"
    /\ s_resp.status = 500


\* reply k of the request is a completion object that is malformed: no
\* choices, an empty choices list, or a first choice without content
Malformed(k) ==
    /\ k <= Len(s_replies)
    /\ s_replies[k].kind = "reply"
    /\ (s_replies[k].choices # "one" \/ ~s_replies[k].hasContent)

WellFormed(k) ==
    /\ k <= Len(s_replies)
    /\ s_replies[k].kind = "reply"
    /\ s_replies[k].choices = "one"
    /\ s_replies[k].hasContent

C24_ReasoningWitness ==
    /\ s_inst = Main
    /\ Malformed(1)
    /\ s_replies[1].choices = "empty"
    /\ s_resp.status = 500
    /\ IsInfix(<<"Error getting reasoning: ">>, s_resp.detail)


\* the last step among the first n that has description d (0 if none)
LastStepWith(d, n) ==
    IF \E k \in 1..n : StepAt(k).description = d
    THEN CHOOSE k \in 1..n :
            /\ StepAt(k).description = d
            /\ \A m \in (k + 1)..n : StepAt(m).description # d
    ELSE 0

\* the blocks the first n outcomes of run j add to the context, in order
RECURSIVE RunBlocks(_, _)
RunBlocks(j, n) ==
    IF n = 0 THEN <<>>
    ELSE RunBlocks(j, n - 1)
         \o (IF runs[j].outcomes[n] = None THEN <<>>
             ELSE PreviousStepBlock(StepAt(n).agent.name, runs[j].outcomes[n].response))

\* the descriptions of a task list are pairwise distinct
DistinctDescriptions(ts) ==
    \A a, b \in 1..Len(ts) : a # b => ts[a].description # ts[b].description

\* C25: when steps share a description every step is still executed and
\* every success still extends the context, but the mapping holds one entry
\* per description, that of the latest step recorded under it; the task
\* lists the two workflows configure have pairwise distinct descriptions.
C25_DuplicateOverwrites ==
    /\ \A j \in 1..Len(runs) :
          LET n == Len(runs[j].outcomes)
          IN  /\ runs[j].pc = "done" =>
                    (n = NumSteps /\ Len(runs[j].prompts) = NumSteps)
              /\ runs[j].context = RunBlocks(j, n)
              /\ DOMAIN runs[j].results = StepDescriptions(n)
              /\ \A d \in DOMAIN runs[j].results :
                    runs[j].results[d] = OwnEntry(j, LastStepWith(d, n))
    /\ \A a \in ApiTypes :
          DistinctDescriptions(ResearchTasks(a)) /\ DistinctDescriptions(SalesTasks(a))

\* steps 1 and 3 share a description; step 1 succeeded and step 3 failed:
\* the mapping has two entries, the shared one is the error, and the
\* context still holds the block of step 1
C25_Witness ==
    /\ Len(runs) >= 1
    /\ runs[1].pc = "done"
    /\ StepAt(1).description = StepAt(3).description
    /\ StepAt(2).description # StepAt(1).description
    /\ runs[1].outcomes[1] # None
    /\ runs[1].outcomes[3] = None
    /\ Cardinality(DOMAIN runs[1].results) = 2
    /\ runs[1].results[StepAt(1).description] = [error |-> "Task failed"]
    /\ IsInfix(runs[1].outcomes[1].response, runs[1].context)


\* the blocks of the first n steps of the run, in order: one per step that
\* succeeded, nothing for a step that failed
RECURSIVE BlocksUpTo(_)
BlocksUpTo(n) ==
    IF n = 0 THEN <<>>
    ELSE BlocksUpTo(n - 1)
         \o (IF StepSucceeded(n)
             THEN PreviousStepBlock(StepAt(n).agent.name, p_outcomes[n].ret.response)
             ELSE <<>>)

IsPrefix(a, b) == Len(a) <= Len(b) /\ SubSeq(b, 1, Len(a)) = a

\* C26: the context in the prompt of step k is the in-order concatenation
\* of one block per earlier step that succeeded; it starts empty and every
\* earlier context is a prefix of every later one.
C26_ContextIsBlockConcatenation ==
    IsPipeline =>
        /\ \A k \in 1..Len(p_prompts) : EmbeddedContext(k) = BlocksUpTo(k - 1)
        /\ context = BlocksUpTo(Len(p_outcomes))
        /\ \A k \in 1..Len(p_prompts) : \A m \in k..Len(p_prompts) :
              IsPrefix(EmbeddedContext(k), EmbeddedContext(m))
        /\ \A k \in 1..Len(p_prompts) : IsPrefix(EmbeddedContext(k), context)

\* success, failure, success, then the fourth prompt: it embeds the blocks
\* of steps 1 and 3
C26_Witness ==
    /\ client.kind = "research"
    /\ Len(p_prompts) = 4
    /\ StepSucceeded(1) /\ StepFailed(2) /\ StepSucceeded(3)
    /\ p_outcomes[1].ret.response # p_outcomes[3].ret.response
    /\ EmbeddedContext(4) =
          PreviousStepBlock("Literature Reviewer", p_outcomes[1].ret.response)
          \o PreviousStepBlock("Methodology Expert", p_outcomes[3].ret.response)
    /\ EmbeddedContext(1) = <<>>


\* C27: if the reasoning call of a /chat request fails, no response call is
\* issued for that request: a response call exists only after a reasoning
\* has been obtained and extracted.
C27_NoResponseCallAfterFailedReasoning ==
    /\ (Len(s_replies) >= 1 /\ ~GetDeepseekReasoning(s_replies[1]).ok) =>
          /\ CallsOf("response") = {}
          /\ Len(s_replies) = 1
          /\ s_pc = "idle"
          /\ s_resp.status = 500
    /\ CallsOf("response") # {} =>
          /\ Len(s_replies) >= 1
          /\ s_replies[1].kind = "reply"
          /\ s_r1.ok
          /\ s_r1.value = ExtractReasoning(s_replies[1].content)
    /\ s_pc = "response" => s_r1.ok

\* main_ollama.py: the reasoning backend raised, the request was answered
\* 500 and the only call ever issued is the reasoning call
C27_Witness ==
    /\ s_inst = MainOllama
    /\ Len(s_replies) = 1
    /\ s_replies[1].kind = "raise"
    /\ Len(s_calls) = 1
    /\ s_calls[1].stage = "reasoning"
    /\ s_resp.status = 500
    /\ net.state = "response"


\* C28: in the web UI every prompt is served by an object constructed with
\* the backend selected at that moment; the simple agent and any cached
\* workflow always carry the session's current api_type.
C28_ServedByCurrentBackend ==
    /\ \A n \in 1..Len(ui.served) : ui.served[n].object_api_type = ui.served[n].selected
    /\ ui.simple_agent.api_type = ui.api_type
    /\ ui.multi_agent_workflow # None => ui.multi_agent_workflow.api_type = ui.api_type
    /\ ui.sales_workflow # None => ui.sales_workflow.api_type = ui.api_type

\* the multi-agent workflow served a prompt under openrouter, the backend
\* was changed, and the next prompt was served by a workflow built for ollama
C28_Witness ==
    /\ Len(ui.served) >= 2
    /\ ui.served[1] = [workflow_type |-> "multi", object_api_type |-> "openrouter",
                       selected |-> "openrouter"]
    /\ ui.served[2] = [workflow_type |-> "multi", object_api_type |-> "ollama",
                       selected |-> "ollama"]
    /\ ui.sales_workflow = None

====
